---- MODULE Spec2Model ----
(***************************************************************************)
(* Transfer-hook extra-account-meta resolution (token/js transferHook      *)
(* state): the ExtraAccountMeta layouts, resolveExtraAccountMeta and       *)
(* getExtraAccountMetaAccount, with the layout combinators of              *)
(* @solana/buffer-layout (u8, u32, blob, bool, struct, seq, greedy) and    *)
(* PublicKey.findProgramAddressSync modelled by what they compute.         *)
(***************************************************************************)
EXTENDS Integers, Sequences, FiniteSets, TLC

VARIABLES
    extraMetas,            \* the descriptors of the resolution pass, in order
    previousMetas,         \* the AccountMetas resolved so far in the pass
    instructionData,       \* the instruction data handed to every step
    transferHookProgramId, \* the hook program of the pass
    status,                \* "running", "returned" or "thrown"
    thrown,                \* the error that ended the pass, "none" otherwise
    returned,              \* what the pass handed to its caller
    calls,                 \* collaborator invocations made so far, each with its step
    lastCall,              \* arguments and outcome of the last resolveExtraAccountMeta
    data,                  \* the byte buffer of the codec
    src,                   \* the in-memory ExtraAccountMetaList handed to the encoder
    intact,                \* whether data is exactly what encoding src produced
    out,                   \* the last decode: its layout, offset and outcome
    derived                \* the results of getExtraAccountMetaAccount calls so far

resolveVars == <<extraMetas, previousMetas, instructionData, transferHookProgramId,
                 status, thrown, returned, calls, lastCall>>
codecVars == <<data, src, intact, out>>
configVars == <<derived>>
vars == <<resolveVars, codecVars, configVars>>

NoValue == [none |-> TRUE]

----------------------------------------------------------------------------
(* Bounds of the model *)

\* longest descriptor list of a resolution pass
MaxMetas == 3
\* most descriptors of an in-memory list handed to the encoder
MaxEncoded == 2

----------------------------------------------------------------------------
(* Bytes, keys and outcomes *)

Fill(b) == [i \in 1..32 |-> b]
Ramp(b) == [i \in 1..32 |-> (b + i) % 256]

\* new PublicKey(bytes): the key is its 32 bytes
PublicKey(bytes) == [bytes |-> bytes]

Return(v) == [ok |-> TRUE, value |-> v]
Throw(e) == [ok |-> FALSE, error |-> e]

\* PublicKey.findProgramAddressSync(seeds, programId)[0]: a deterministic
\* function of the seed list and the owner, distinct inputs giving distinct
\* addresses (the hash is kept symbolic); it throws when no bump seed works.
Exhausted == {PublicKey(Fill(9))}
findProgramAddressSync(seeds, programId) ==
    IF programId \in Exhausted
    THEN Throw("AddressSpaceExhausted")
    ELSE Return([seeds |-> seeds, programId |-> programId])

\* unpackSeeds(addressConfig, previousMetas, instructionData): a deterministic
\* function of its three arguments giving the ordered seed list, failing on a
\* configuration it cannot parse (a first seed tag outside 0..4).
unpackSeeds(addressConfig, previous, ixData) ==
    IF addressConfig[1] \notin 0..4
    THEN Throw("InvalidSeedConfig")
    ELSE Return(<<[config |-> addressConfig, accounts |-> previous, data |-> ixData]>>)

----------------------------------------------------------------------------
(* resolveExtraAccountMeta *)

SeedCall(extraMeta, previous, ixData) ==
    [fn |-> "unpackSeeds", config |-> extraMeta.addressConfig,
     accounts |-> previous, data |-> ixData]
OracleCall(seeds, programId) ==
    [fn |-> "findProgramAddressSync", seeds |-> seeds, programId |-> programId]

\* Outcome of a step together with the collaborator calls it made, in order.
Outcome(result, made) == [result |-> result, made |-> made]

\* the seeds are unpacked without the accounts resolved so far
deriveWithoutPrevious(extraMeta, previous, ixData, programId) ==
    LET seeds == unpackSeeds(extraMeta.addressConfig, <<>>, ixData)
        c1 == <<SeedCall(extraMeta, <<>>, ixData)>>
    IN  IF ~seeds.ok THEN Outcome(seeds, c1)
        ELSE LET pubkey == findProgramAddressSync(seeds.value, programId)
                 c2 == Append(c1, OracleCall(seeds.value, programId))
             IN  IF ~pubkey.ok THEN Outcome(pubkey, c2)
                 ELSE Outcome(Return([pubkey |-> pubkey.value,
                                      isSigner |-> extraMeta.isSigner,
                                      isWritable |-> extraMeta.isWritable]), c2)

\* The derivation of lines 120-123 under an already chosen owner.
derive(extraMeta, previous, ixData, programId) ==
    LET seeds == unpackSeeds(extraMeta.addressConfig, previous, ixData)
        c1 == <<SeedCall(extraMeta, previous, ixData)>>
    IN  IF ~seeds.ok THEN Outcome(seeds, c1)
        ELSE LET pubkey == findProgramAddressSync(seeds.value, programId)
                 c2 == Append(c1, OracleCall(seeds.value, programId))
             IN  IF ~pubkey.ok THEN Outcome(pubkey, c2)
                 ELSE Outcome(Return([pubkey |-> pubkey.value,
                                      isSigner |-> extraMeta.isSigner,
                                      isWritable |-> extraMeta.isWritable]), c2)

\* Variants of resolveExtraAccountMeta, each with one slip; every property of
\* a resolution step stated below fails for at least one of them.
literalMeta(extraMeta) ==
    Outcome(Return([pubkey |-> PublicKey(extraMeta.addressConfig),
                    isSigner |-> extraMeta.isSigner,
                    isWritable |-> extraMeta.isWritable]), <<>>)

\* the owner of a delegated derivation is left at the hook program
resolveDelegatedUnderHook(extraMeta, previous, ixData, hookProgramId) ==
    IF extraMeta.discriminator = 0 THEN literalMeta(extraMeta)
    ELSE IF extraMeta.discriminator = 1
    THEN derive(extraMeta, previous, ixData, hookProgramId)
    ELSE LET accountIndex == extraMeta.discriminator - 128
         IN  IF Len(previous) <= accountIndex
             THEN Outcome(Throw("TokenTransferHookAccountNotFound"), <<>>)
             ELSE IF accountIndex < 0 THEN Outcome(Throw("TypeError"), <<>>)
             ELSE derive(extraMeta, previous, ixData, hookProgramId)

\* the literal case is missing: discriminator 0 is derived like discriminator 1
resolveLiteralDerived(extraMeta, previous, ixData, hookProgramId) ==
    IF extraMeta.discriminator \in {0, 1}
    THEN derive(extraMeta, previous, ixData, hookProgramId)
    ELSE LET accountIndex == extraMeta.discriminator - 128
         IN  IF Len(previous) <= accountIndex
             THEN Outcome(Throw("TokenTransferHookAccountNotFound"), <<>>)
             ELSE IF accountIndex < 0 THEN Outcome(Throw("TypeError"), <<>>)
             ELSE derive(extraMeta, previous, ixData, previous[accountIndex + 1].pubkey)

\* discriminator 1 is taken as a reference to the first resolved account
resolveSelfAsIndex(extraMeta, previous, ixData, hookProgramId) ==
    IF extraMeta.discriminator = 0 THEN literalMeta(extraMeta)
    ELSE LET accountIndex == IF extraMeta.discriminator = 1 THEN 0
                             ELSE extraMeta.discriminator - 128
         IN  IF Len(previous) <= accountIndex
             THEN Outcome(Throw("TokenTransferHookAccountNotFound"), <<>>)
             ELSE IF accountIndex < 0 THEN Outcome(Throw("TypeError"), <<>>)
             ELSE derive(extraMeta, previous, ixData, previous[accountIndex + 1].pubkey)

\* a missing account is replaced by the default key instead of throwing
resolveMissingAsDefault(extraMeta, previous, ixData, hookProgramId) ==
    IF extraMeta.discriminator = 0 THEN literalMeta(extraMeta)
    ELSE IF extraMeta.discriminator = 1
    THEN derive(extraMeta, previous, ixData, hookProgramId)
    ELSE LET accountIndex == extraMeta.discriminator - 128
         IN  IF Len(previous) <= accountIndex \/ accountIndex < 0
             THEN Outcome(Return([pubkey |-> PublicKey(Fill(0)),
                                  isSigner |-> extraMeta.isSigner,
                                  isWritable |-> extraMeta.isWritable]), <<>>)
             ELSE derive(extraMeta, previous, ixData, previous[accountIndex + 1].pubkey)

resolveExtraAccountMeta(extraMeta, previous, ixData, hookProgramId) ==
    IF extraMeta.discriminator = 0
    THEN Outcome(Return([pubkey |-> PublicKey(extraMeta.addressConfig),
                         isSigner |-> extraMeta.isSigner,
                         isWritable |-> extraMeta.isWritable]), <<>>)
    ELSE IF extraMeta.discriminator = 1
    THEN derive(extraMeta, previous, ixData, hookProgramId)
    ELSE LET accountIndex == extraMeta.discriminator - 128
         IN  IF Len(previous) <= accountIndex
             THEN Outcome(Throw("TokenTransferHookAccountNotFound"), <<>>)
             ELSE IF accountIndex < 0
             \* previousMetas[accountIndex] is undefined for a negative index
             \* and reading its pubkey throws a TypeError
             THEN Outcome(Throw("TypeError"), <<>>)
             ELSE derive(extraMeta, previous, ixData, previous[accountIndex + 1].pubkey)

----------------------------------------------------------------------------
(* The resolution pass *)

Discriminators == {0, 1, 127, 128, 129}
Configs == {Ramp(0), Fill(9)}
Flags == {<<FALSE, TRUE>>, <<TRUE, FALSE>>}
ExtraAccountMeta ==
    { [discriminator |-> d, addressConfig |-> c, isSigner |-> f[1], isWritable |-> f[2]] :
        d \in Discriminators, c \in Configs, f \in Flags }

SeqsUpTo(S, n) == UNION { [1..k -> S] : k \in 0..n }

HookProgramIds == {PublicKey(Fill(7)), PublicKey(Fill(9))}
InstructionDatas == {<<>>, <<5, 6>>}

InitResolve ==
    /\ extraMetas \in SeqsUpTo(ExtraAccountMeta, MaxMetas)
    /\ previousMetas = <<>>
    /\ instructionData \in InstructionDatas
    /\ transferHookProgramId \in HookProgramIds
    /\ status = "running"
    /\ thrown = "none"
    /\ returned = NoValue
    /\ calls = <<>>
    /\ lastCall = NoValue
    /\ data = <<>> /\ src = NoValue /\ intact = FALSE /\ out = NoValue
    /\ derived = {}

\* One iteration of the pass: resolve the next descriptor against the
\* accounts resolved so far; an exception leaves the loop and the pass.
ResolveNext ==
    /\ status = "running"
    /\ Len(previousMetas) < Len(extraMetas)
    /\ LET i == Len(previousMetas) + 1
           o == resolveExtraAccountMeta(extraMetas[i], previousMetas,
                                        instructionData, transferHookProgramId)
       IN  /\ lastCall' = [step |-> i, extraMeta |-> extraMetas[i],
                           previousMetas |-> previousMetas, result |-> o.result]
           /\ calls' = calls \o [k \in 1..Len(o.made) |-> [step |-> i, call |-> o.made[k]]]
           /\ IF o.result.ok
              THEN /\ previousMetas' = Append(previousMetas, o.result.value)
                   /\ UNCHANGED <<status, thrown>>
              ELSE /\ status' = "thrown"
                   /\ thrown' = o.result.error
                   /\ UNCHANGED previousMetas
    /\ UNCHANGED <<extraMetas, instructionData, transferHookProgramId, returned>>
    /\ UNCHANGED <<codecVars, configVars>>

\* The loop ran off the end of the list: the pass returns what it resolved.
ReturnAccounts ==
    /\ status = "running"
    /\ Len(previousMetas) = Len(extraMetas)
    /\ status' = "returned"
    /\ returned' = previousMetas
    /\ UNCHANGED <<extraMetas, previousMetas, instructionData, transferHookProgramId,
                   thrown, calls, lastCall>>
    /\ UNCHANGED <<codecVars, configVars>>

NextResolve == ResolveNext \/ ReturnAccounts

SpecResolve == InitResolve /\ [][NextResolve]_vars

----------------------------------------------------------------------------
(* Claims about a resolution step and the pass *)

Stepped == lastCall # NoValue
StepCalls(i) == SelectSeq(calls, LAMBDA c : c.step = i)
AccountIndexOf(extraMeta) == extraMeta.discriminator - 128

\* C1 (as stated): a descriptor whose discriminator d is neither 0 nor 1 fails
\* with TokenTransferHookAccountNotFound whenever d - 128 is negative or is at
\* least the number of accounts resolved before it.
C1_OutOfRangeIsAccountNotFound ==
    Stepped =>
        LET d == lastCall.extraMeta.discriminator
            index == AccountIndexOf(lastCall.extraMeta)
        IN  (d \notin {0, 1} /\ (index < 0 \/ index >= Len(lastCall.previousMetas)))
                => (~lastCall.result.ok
                    /\ lastCall.result.error = "TokenTransferHookAccountNotFound")

\* C2: a descriptor with discriminator d >= 128, resolved against more than
\* d - 128 accounts, gets the address the derivation oracle gives for the seed
\* provider's seeds under the owner stored at position d - 128 of the resolved
\* accounts; that owner, and not the hook program, is what the oracle is handed.
C2_DelegatedOwner ==
    Stepped =>
        LET m == lastCall.extraMeta
            prev == lastCall.previousMetas
            index == AccountIndexOf(m)
        IN  (m.discriminator >= 128 /\ Len(prev) > index) =>
                LET owner == prev[index + 1].pubkey
                    seeds == unpackSeeds(m.addressConfig, prev, instructionData)
                    made == StepCalls(lastCall.step)
                IN  /\ \A k \in 1..Len(made) :
                            made[k].call.fn = "findProgramAddressSync"
                                => made[k].call.programId = owner
                    /\ IF ~seeds.ok THEN lastCall.result = seeds
                       ELSE LET address == findProgramAddressSync(seeds.value, owner)
                            IN  IF ~address.ok THEN lastCall.result = address
                                ELSE /\ lastCall.result.ok
                                     /\ lastCall.result.value.pubkey = address.value
                                     /\ Len(made) = 2
                                     /\ made[2].call = OracleCall(seeds.value, owner)

\* C2's case: entry 0 resolved literally to A, entry 1 with discriminator 128
\* derived under A, A not being the hook program.
C2_Witness ==
    /\ Stepped
    /\ lastCall.step = 2
    /\ extraMetas[1].discriminator = 0
    /\ lastCall.extraMeta.discriminator = 128
    /\ lastCall.result.ok
    /\ lastCall.result.value.pubkey.programId = PublicKey(extraMetas[1].addressConfig)
    /\ transferHookProgramId # PublicKey(extraMetas[1].addressConfig)

\* C3: a descriptor with discriminator 0 always resolves, to the key made of
\* its 32 addressConfig bytes and with its own isSigner/isWritable, and neither
\* the seed provider nor the derivation oracle is called in that step.
C3_LiteralBypassesDerivation ==
    /\ Stepped /\ lastCall.extraMeta.discriminator = 0 =>
        /\ lastCall.result.ok
        /\ lastCall.result.value.pubkey = PublicKey(lastCall.extraMeta.addressConfig)
        /\ lastCall.result.value.pubkey.bytes = lastCall.extraMeta.addressConfig
        /\ lastCall.result.value.isSigner = lastCall.extraMeta.isSigner
        /\ lastCall.result.value.isWritable = lastCall.extraMeta.isWritable
        /\ StepCalls(lastCall.step) = <<>>
    /\ \A k \in 1..Len(calls) : extraMetas[calls[k].step].discriminator # 0

\* C3's case: a literal descriptor resolved after another account, its bytes
\* no seed configuration and the key they spell one the oracle fails for.
C3_Witness ==
    /\ Stepped
    /\ lastCall.step = 2
    /\ lastCall.extraMeta.discriminator = 0
    /\ ~unpackSeeds(lastCall.extraMeta.addressConfig, lastCall.previousMetas,
                    instructionData).ok
    /\ lastCall.extraMeta.isSigner /\ ~lastCall.extraMeta.isWritable
    /\ lastCall.result.ok
    /\ previousMetas[2].pubkey \in Exhausted

\* C4: a descriptor with discriminator 1 is derived under the hook program,
\* whatever has been resolved before it: the oracle is handed the hook program
\* as owner, the outcome is the derivation's, and the step never fails with
\* TokenTransferHookAccountNotFound.
C4_SelfDerivedUnderHook ==
    Stepped /\ lastCall.extraMeta.discriminator = 1 =>
        LET m == lastCall.extraMeta
            prev == lastCall.previousMetas
            seeds == unpackSeeds(m.addressConfig, prev, instructionData)
            made == StepCalls(lastCall.step)
        IN  /\ \A k \in 1..Len(made) :
                    made[k].call.fn = "findProgramAddressSync"
                        => made[k].call.programId = transferHookProgramId
            /\ ~lastCall.result.ok
                    => lastCall.result.error # "TokenTransferHookAccountNotFound"
            /\ IF ~seeds.ok THEN lastCall.result = seeds
               ELSE LET address == findProgramAddressSync(seeds.value, transferHookProgramId)
                    IN  IF ~address.ok THEN lastCall.result = address
                        ELSE /\ lastCall.result.ok
                             /\ lastCall.result.value.pubkey = address.value
                             /\ address.value.programId = transferHookProgramId

\* C4's case: discriminator 1 resolved after an account whose address is not
\* the hook program, and derived under the hook program all the same.
C4_Witness ==
    /\ Stepped
    /\ lastCall.step = 2
    /\ lastCall.extraMeta.discriminator = 1
    /\ lastCall.previousMetas[1].pubkey # transferHookProgramId
    /\ lastCall.result.ok
    /\ lastCall.result.value.pubkey.programId = transferHookProgramId

\* C9: when the step at position i fails, the pass ends with that very error:
\* nothing is returned (not the accounts of positions before i either), no
\* later descriptor is resolved and no collaborator is called for one, and a
\* reference to an account not yet resolved is an error, not a default address.
C9_FailureAbortsPass ==
    /\ (Stepped /\ ~lastCall.result.ok) =>
        /\ status = "thrown"
        /\ thrown = lastCall.result.error
    /\ status = "thrown" =>
        /\ Stepped /\ ~lastCall.result.ok
        /\ thrown = lastCall.result.error
        /\ returned = NoValue
        /\ Len(previousMetas) = lastCall.step - 1
        /\ \A k \in 1..Len(calls) : calls[k].step <= lastCall.step
        /\ ~ENABLED ResolveNext
        /\ ~ENABLED ReturnAccounts
    /\ status = "returned" =>
        /\ thrown = "none"
        /\ Len(returned) = Len(extraMetas)
    /\ (Stepped /\ lastCall.extraMeta.discriminator >= 128
           /\ AccountIndexOf(lastCall.extraMeta) >= Len(lastCall.previousMetas)) =>
        /\ status = "thrown"
        /\ thrown = "TokenTransferHookAccountNotFound"

\* C9's case: the pass failed at its second descriptor, after one account was
\* resolved and with a third descriptor still to come.
C9_Witness ==
    /\ status = "thrown"
    /\ lastCall.step = 2
    /\ Len(previousMetas) = 1
    /\ Len(extraMetas) = 3
    /\ returned = NoValue

Prefix(n) == SubSeq(previousMetas, 1, n)

\* What the accumulator holds in a state: one entry per descriptor resolved,
\* entry j made from descriptor j and from the entries before it alone.
C11_Accumulated ==
    /\ Len(previousMetas) <= Len(extraMetas)
    /\ \A j \in 1..Len(previousMetas) :
        LET m == extraMetas[j]
            a == previousMetas[j]
        IN  /\ a.isSigner = m.isSigner
            /\ a.isWritable = m.isWritable
            /\ m.discriminator = 0 => a.pubkey = PublicKey(m.addressConfig)
            /\ m.discriminator # 0 =>
                /\ a.pubkey.seeds =
                       unpackSeeds(m.addressConfig, Prefix(j - 1), instructionData).value
                /\ a.pubkey.seeds[1].accounts = Prefix(j - 1)
                /\ a.pubkey.programId =
                       (IF m.discriminator = 1 THEN transferHookProgramId
                        ELSE previousMetas[m.discriminator - 128 + 1].pubkey)
    /\ Stepped =>
        /\ lastCall.previousMetas = Prefix(lastCall.step - 1)
        /\ lastCall.result.ok <=> Len(previousMetas) = lastCall.step
        /\ lastCall.result.ok => previousMetas[lastCall.step] = lastCall.result.value
    /\ \A k \in 1..Len(calls) :
        calls[k].call.fn = "unpackSeeds"
            => calls[k].call.accounts = Prefix(calls[k].step - 1)
    /\ status = "returned" =>
        /\ returned = previousMetas
        /\ Len(returned) = Len(extraMetas)

\* What a step may do to the accumulator: leave it, or append one entry.
C11_Appended ==
    /\ Len(previousMetas') \in {Len(previousMetas), Len(previousMetas) + 1}
    /\ SubSeq(previousMetas', 1, Len(previousMetas)) = previousMetas

\* C11: the resolved list is an append-only accumulator. After k successful
\* steps it holds k entries, entry j the result of descriptor j with that
\* descriptor's isSigner/isWritable; step k reads the entries 0..k-1 (for the
\* owner and for the seeds) and changes none of them; a successful pass over
\* n descriptors returns n references in descriptor order.
C11_AppendOnlyAccumulator == []C11_Accumulated /\ [][C11_Appended]_vars

\* C11's case: a pass of three descriptors returned three references, the
\* second derived under the hook program from the first, the third under the
\* second as owner.
C11_Witness ==
    /\ status = "returned"
    /\ Len(returned) = 3
    /\ extraMetas[1].discriminator = 0
    /\ extraMetas[2].discriminator = 1
    /\ extraMetas[3].discriminator = 129
    /\ returned[3].pubkey.programId = returned[2].pubkey
    /\ returned[3].pubkey.seeds[1].accounts = <<returned[1], returned[2]>>

\* C12 (as stated): within a step the owner lookup comes before any
\* collaborator call. With the delegated-owner index out of range (negative,
\* or at least the number of accounts resolved so far) neither unpackSeeds nor
\* findProgramAddressSync is called; if the addressConfig is unparseable as
\* well, the failure is TokenTransferHookAccountNotFound and not
\* InvalidSeedConfig; and findProgramAddressSync is called only after
\* unpackSeeds has returned a seed list.
C12_OwnerLookupFirst ==
    Stepped =>
        LET m == lastCall.extraMeta
            prev == lastCall.previousMetas
            index == AccountIndexOf(m)
            outOfRange == m.discriminator \notin {0, 1}
                            /\ (index < 0 \/ index >= Len(prev))
            seeds == unpackSeeds(m.addressConfig, prev, instructionData)
            made == StepCalls(lastCall.step)
        IN  /\ outOfRange => made = <<>>
            /\ (outOfRange /\ ~seeds.ok) =>
                /\ ~lastCall.result.ok
                /\ lastCall.result.error = "TokenTransferHookAccountNotFound"
            /\ \A k \in 1..Len(made) :
                made[k].call.fn = "findProgramAddressSync" =>
                    /\ k = 2
                    /\ made[1].call.fn = "unpackSeeds"
                    /\ seeds.ok
                    /\ made[k].call.seeds = seeds.value

----------------------------------------------------------------------------
(* The layouts: u8, u32, blob, bool, struct, seq and greedy *)

\* An unsigned 32-bit value hi * 2^16 + lo, kept as its two 16-bit halves.
U32(hi, lo) == [hi |-> hi, lo |-> lo]

\* Buffer reads: readUIntLE throws a RangeError when the bytes asked for are
\* not all inside the buffer; slice clamps to the buffer instead.
InRange(b, offset, span) == offset >= 0 /\ offset + span <= Len(b)
slice(b, from, to) ==
    LET lo == IF from > Len(b) THEN Len(b) ELSE from
        hi == IF to > Len(b) THEN Len(b) ELSE to
    IN  SubSeq(b, lo + 1, hi)

u8_decode(b, offset) ==
    IF InRange(b, offset, 1) THEN Return(b[offset + 1]) ELSE Throw("RangeError")
u8_encode(v) == <<v>>

u32_decode(b, offset) ==
    IF InRange(b, offset, 4)
    THEN Return(U32(b[offset + 3] + 256 * b[offset + 4], b[offset + 1] + 256 * b[offset + 2]))
    ELSE Throw("RangeError")
\* the four bytes written most significant first
u32_encodeBigEndian(v) == <<v.hi \div 256, v.hi % 256, v.lo \div 256, v.lo % 256>>
u32_encode(v) == <<v.lo % 256, v.lo \div 256, v.hi % 256, v.hi \div 256>>

blob_decode(b, offset, length) == Return(slice(b, offset, offset + length))
blob_encode(v) == v

\* a byte past the end read as undefined, hence false
bool_decodeUnchecked(b, offset) ==
    IF InRange(b, offset, 1) THEN Return(b[offset + 1] # 0) ELSE Return(FALSE)
bool_decode(b, offset) ==
    LET v == u8_decode(b, offset) IN IF v.ok THEN Return(v.value # 0) ELSE v
bool_encode(v) == <<IF v THEN 1 ELSE 0>>

\* ExtraAccountMetaLayout.span
ExtraAccountMetaLayoutSpan == 1 + 32 + 1 + 1

\* isWritable read before isSigner
ExtraAccountMetaLayout_decodeSwapped(b, offset) ==
    LET discriminator == u8_decode(b, offset)
        addressConfig == blob_decode(b, offset + 1, 32)
        isWritable == bool_decode(b, offset + 1 + 32)
        isSigner == bool_decode(b, offset + 1 + 32 + 1)
    IN  IF ~discriminator.ok THEN discriminator
        ELSE IF ~isWritable.ok THEN isWritable
        ELSE IF ~isSigner.ok THEN isSigner
        ELSE Return([discriminator |-> discriminator.value,
                     addressConfig |-> addressConfig.value,
                     isSigner |-> isSigner.value,
                     isWritable |-> isWritable.value])

\* struct.decode: the fields in order, each at the offset the spans of the
\* fields before it give; the first failing read ends the decode.
ExtraAccountMetaLayout_decode(b, offset) ==
    LET discriminator == u8_decode(b, offset)
        addressConfig == blob_decode(b, offset + 1, 32)
        isSigner == bool_decode(b, offset + 1 + 32)
        isWritable == bool_decode(b, offset + 1 + 32 + 1)
    IN  IF ~discriminator.ok THEN discriminator
        ELSE IF ~isSigner.ok THEN isSigner
        ELSE IF ~isWritable.ok THEN isWritable
        ELSE Return([discriminator |-> discriminator.value,
                     addressConfig |-> addressConfig.value,
                     isSigner |-> isSigner.value,
                     isWritable |-> isWritable.value])

ExtraAccountMetaLayout_encode(m) ==
    u8_encode(m.discriminator) \o blob_encode(m.addressConfig)
        \o bool_encode(m.isSigner) \o bool_encode(m.isWritable)

\* the element count taken from the low half of the u32 before the sequence
countPrefixed(b, offset, elementSpan) == u32_decode(b, offset - 4).value.lo
\* greedy(elementSpan).decode: the whole elements that fit in the rest
greedy(b, offset, elementSpan) == (Len(b) - offset) \div elementSpan

RECURSIVE seq_decode(_, _, _)
seq_decode(b, offset, count) ==
    IF count <= 0 THEN Return(<<>>)
    ELSE LET e == ExtraAccountMetaLayout_decode(b, offset)
         IN  IF ~e.ok THEN e
             ELSE LET rest == seq_decode(b, offset + ExtraAccountMetaLayoutSpan, count - 1)
                  IN  IF ~rest.ok THEN rest ELSE Return(<<e.value>> \o rest.value)

RECURSIVE seq_encode(_)
seq_encode(elements) ==
    IF elements = <<>> THEN <<>>
    ELSE ExtraAccountMetaLayout_encode(Head(elements)) \o seq_encode(Tail(elements))

ExtraAccountMetaListLayout_decode(b) ==
    LET count == u32_decode(b, 0)
    IN  IF ~count.ok THEN count
        ELSE LET extraAccounts ==
                     seq_decode(b, 4, greedy(b, 4, ExtraAccountMetaLayoutSpan))
             IN  IF ~extraAccounts.ok THEN extraAccounts
                 ELSE Return([count |-> count.value,
                              extraAccounts |-> extraAccounts.value])

ExtraAccountMetaListLayout_encode(list) ==
    u32_encode(list.count) \o seq_encode(list.extraAccounts)

----------------------------------------------------------------------------
(* Encoding, truncating and decoding a buffer *)

Counts == {U32(0, 0), U32(0, 2), U32(2, 1), U32(65535, 65535)}
EncodedMetas ==
    { [discriminator |-> 0, addressConfig |-> Ramp(0),
       isSigner |-> FALSE, isWritable |-> TRUE],
      [discriminator |-> 255, addressConfig |-> Fill(255),
       isSigner |-> TRUE, isWritable |-> FALSE],
      [discriminator |-> 128, addressConfig |-> Ramp(100),
       isSigner |-> TRUE, isWritable |-> TRUE] }
ExtraAccountMetaList ==
    { [count |-> c, extraAccounts |-> a] :
        c \in Counts, a \in SeqsUpTo(EncodedMetas, MaxEncoded) }
Offsets == {0} \cup { 4 + ExtraAccountMetaLayoutSpan * k : k \in 0..MaxEncoded }

InitCodec ==
    /\ src \in ExtraAccountMetaList
    /\ data = <<>>
    /\ intact = FALSE
    /\ out = NoValue
    /\ extraMetas = <<>> /\ previousMetas = <<>> /\ instructionData = <<>>
    /\ transferHookProgramId = PublicKey(Fill(7))
    /\ status = "returned" /\ thrown = "none" /\ returned = <<>>
    /\ calls = <<>> /\ lastCall = NoValue
    /\ derived = {}

\* ExtraAccountMetaListLayout.encode(src, buffer): the bytes produced
Encode ==
    /\ data = <<>> /\ ~intact
    /\ data' = ExtraAccountMetaListLayout_encode(src)
    /\ intact' = TRUE
    /\ out' = NoValue
    /\ UNCHANGED <<src, resolveVars, configVars>>

\* The account holds fewer bytes than were written: the last byte is gone.
Truncate ==
    /\ data # <<>>
    /\ data' = SubSeq(data, 1, Len(data) - 1)
    /\ intact' = FALSE
    /\ out' = NoValue
    /\ UNCHANGED <<src, resolveVars, configVars>>

\* ExtraAccountMetaListLayout.decode(data)
DecodeList ==
    /\ out' = [layout |-> "ExtraAccountMetaListLayout", offset |-> 0,
               result |-> ExtraAccountMetaListLayout_decode(data)]
    /\ UNCHANGED <<data, src, intact, resolveVars, configVars>>

\* ExtraAccountMetaLayout.decode(data, offset)
DecodeMeta ==
    \E offset \in Offsets :
        /\ out' = [layout |-> "ExtraAccountMetaLayout", offset |-> offset,
                   result |-> ExtraAccountMetaLayout_decode(data, offset)]
        /\ UNCHANGED <<data, src, intact, resolveVars, configVars>>

NextCodec == Encode \/ Truncate \/ DecodeList \/ DecodeMeta

SpecCodec == InitCodec /\ [][NextCodec]_vars

----------------------------------------------------------------------------
(* Claims about the layouts *)

DecodedList == out # NoValue /\ out.layout = "ExtraAccountMetaListLayout"
DecodedMeta == out # NoValue /\ out.layout = "ExtraAccountMetaLayout"
\* the byte at a 0-based offset of data
ByteAt(offset) == data[offset + 1]
BytesAt(from, to) == [i \in 1..(to - from + 1) |-> data[from + i]]

\* C5: decoding a list buffer of L >= 4 bytes succeeds with exactly
\* floor((L - 4) / 35) descriptors, whatever its count field says; a partial
\* entry at the end is dropped, not an error.
C5_GreedyLength ==
    (DecodedList /\ Len(data) >= 4) =>
        /\ out.result.ok
        /\ Len(out.result.value.extraAccounts) = (Len(data) - 4) \div 35

\* C5's case: one whole entry and a partial second, under a count field of 0.
C5_Witness ==
    /\ DecodedList
    /\ (Len(data) - 4) % 35 \in 1..34
    /\ out.result.ok
    /\ Len(out.result.value.extraAccounts) = 1
    /\ out.result.value.count = U32(0, 0)

\* C6: decoding the bytes that encoding an in-memory list produced gives back
\* the same descriptors, field by field and in order, and the same count, also
\* when the count is not the number of descriptors.
C6_RoundTrip ==
    (DecodedList /\ intact) =>
        /\ out.result.ok
        /\ out.result.value.count = src.count
        /\ Len(out.result.value.extraAccounts) = Len(src.extraAccounts)
        /\ \A i \in 1..Len(src.extraAccounts) :
            LET a == out.result.value.extraAccounts[i]
                m == src.extraAccounts[i]
            IN  /\ a.discriminator = m.discriminator
                /\ a.addressConfig = m.addressConfig
                /\ a.isSigner = m.isSigner
                /\ a.isWritable = m.isWritable

\* C6's case: two different descriptors under a count of 2^32 - 1.
C6_Witness ==
    /\ DecodedList /\ intact
    /\ Len(src.extraAccounts) = 2
    /\ src.extraAccounts[1] # src.extraAccounts[2]
    /\ src.count = U32(65535, 65535)
    /\ out.result.ok

\* C7: an encoded descriptor is 35 bytes, discriminator at offset 0,
\* addressConfig at 1..32, isSigner at 33, isWritable at 34; an encoded list
\* is the little-endian u32 count at offsets 0..3 followed by descriptor i at
\* 4+35*i .. 4+35*i+34; a decode reads every field from those offsets.
C7_Offsets ==
    /\ intact =>
        /\ Len(data) = 4 + 35 * Len(src.extraAccounts)
        /\ ByteAt(0) + 256 * ByteAt(1) = src.count.lo
        /\ ByteAt(2) + 256 * ByteAt(3) = src.count.hi
        /\ \A i \in 0..(Len(src.extraAccounts) - 1) :
            LET m == src.extraAccounts[i + 1]
                at == 4 + 35 * i
            IN  /\ ByteAt(at) = m.discriminator
                /\ BytesAt(at + 1, at + 32) = m.addressConfig
                /\ ByteAt(at + 33) = (IF m.isSigner THEN 1 ELSE 0)
                /\ ByteAt(at + 34) = (IF m.isWritable THEN 1 ELSE 0)
    /\ (DecodedList /\ out.result.ok) =>
        /\ out.result.value.count.lo = ByteAt(0) + 256 * ByteAt(1)
        /\ out.result.value.count.hi = ByteAt(2) + 256 * ByteAt(3)
        /\ \A i \in 0..(Len(out.result.value.extraAccounts) - 1) :
            LET a == out.result.value.extraAccounts[i + 1]
                at == 4 + 35 * i
            IN  /\ a.discriminator = ByteAt(at)
                /\ a.addressConfig = BytesAt(at + 1, at + 32)
                /\ a.isSigner = (ByteAt(at + 33) # 0)
                /\ a.isWritable = (ByteAt(at + 34) # 0)
    /\ (DecodedMeta /\ out.result.ok) =>
        LET a == out.result.value
            at == out.offset
        IN  /\ a.discriminator = ByteAt(at)
            /\ a.addressConfig = BytesAt(at + 1, at + 32)
            /\ a.isSigner = (ByteAt(at + 33) # 0)
            /\ a.isWritable = (ByteAt(at + 34) # 0)

\* C7's case: a decoded list of two descriptors whose second has isSigner
\* and isWritable different, read from offsets 39..73.
C7_Witness ==
    /\ DecodedList /\ intact
    /\ out.result.ok
    /\ Len(out.result.value.extraAccounts) = 2
    /\ out.result.value.extraAccounts[2].isSigner
    /\ ~out.result.value.extraAccounts[2].isWritable
    /\ out.result.value.count.hi # out.result.value.count.lo

\* C8: decoding one descriptor where fewer than 35 bytes remain always fails,
\* with the RangeError of the read past the end, and yields no descriptor.
C8_ShortDescriptorFails ==
    (DecodedMeta /\ Len(data) - out.offset < 35) =>
        /\ ~out.result.ok
        /\ out.result.error = "RangeError"

\* C8's case: 34 bytes remain after a whole first descriptor.
C8_Witness ==
    /\ DecodedMeta
    /\ out.offset = 39
    /\ Len(data) - out.offset = 34
    /\ ~out.result.ok

----------------------------------------------------------------------------
(* getExtraAccountMetaAccount *)

CharCode ==
    [c \in {"a", "c", "e", "m", "n", "o", "r", "s", "t", "u", "x", "-"} |->
        CASE c = "a" -> 97  [] c = "c" -> 99  [] c = "e" -> 101 [] c = "m" -> 109
          [] c = "n" -> 110 [] c = "o" -> 111 [] c = "r" -> 114 [] c = "s" -> 115
          [] c = "t" -> 116 [] c = "u" -> 117 [] c = "x" -> 120 [] c = "-" -> 45]
\* Buffer.from(string): the character codes of an ASCII string
BufferFrom(chars) == [i \in 1..Len(chars) |-> CharCode[chars[i]]]
\* 'extra-account-metas'
SeedTag == <<"e", "x", "t", "r", "a", "-", "a", "c", "c", "o", "u", "n", "t", "-",
             "m", "e", "t", "a", "s">>
\* PublicKey.toBuffer()
toBuffer(key) == key.bytes

\* the two keys taken for each other
getExtraAccountMetaAccountSwapped(programId, mint) ==
    LET seeds == <<BufferFrom(SeedTag), toBuffer(programId)>>
    IN  findProgramAddressSync(seeds, mint)

getExtraAccountMetaAccount(programId, mint) ==
    LET seeds == <<BufferFrom(SeedTag), toBuffer(mint)>>
    IN  findProgramAddressSync(seeds, programId)

ProgramIds == {PublicKey(Fill(7)), PublicKey(Fill(9)), PublicKey(Ramp(0))}
Mints == {PublicKey(Fill(7)), PublicKey(Ramp(0)), PublicKey(Ramp(100))}

InitConfig ==
    /\ derived = {}
    /\ extraMetas = <<>> /\ previousMetas = <<>> /\ instructionData = <<>>
    /\ transferHookProgramId = PublicKey(Fill(7))
    /\ status = "returned" /\ thrown = "none" /\ returned = <<>>
    /\ calls = <<>> /\ lastCall = NoValue
    /\ data = <<>> /\ src = NoValue /\ intact = FALSE /\ out = NoValue

\* A call of getExtraAccountMetaAccount, remembered with its arguments.
GetExtraAccountMetaAccount ==
    \E programId \in ProgramIds, mint \in Mints :
        /\ derived' = derived \cup
               {[programId |-> programId, mint |-> mint,
                 result |-> getExtraAccountMetaAccount(programId, mint)]}
        /\ UNCHANGED <<resolveVars, codecVars>>

NextConfig == GetExtraAccountMetaAccount

SpecConfig == InitConfig /\ [][NextConfig]_vars

\* C10: the config account address of a (hook program, mint) pair is the
\* derivation oracle's result for the seeds 'extra-account-metas' and the
\* mint's 32 bytes under the hook program as owner, and the same pair gets the
\* same address whatever was derived before.
C10_ConfigAddress ==
    /\ \A r \in derived :
        LET tag == <<101, 120, 116, 114, 97, 45, 97, 99, 99, 111, 117, 110, 116, 45,
                     109, 101, 116, 97, 115>>
        IN  /\ r.result = findProgramAddressSync(<<tag, r.mint.bytes>>, r.programId)
            /\ r.result.ok =>
                /\ r.result.value.programId = r.programId
                /\ r.result.value.seeds = <<tag, r.mint.bytes>>
    /\ \A r1, r2 \in derived :
        (r1.programId = r2.programId /\ r1.mint = r2.mint) => r1.result = r2.result

\* C10's case: one mint under two hook programs and one hook program with two
\* mints, all derived, with three different addresses.
C10_Witness ==
    \E r1, r2, r3 \in derived :
        /\ r1.mint = r2.mint /\ r1.programId # r2.programId
        /\ r3.programId = r1.programId /\ r3.mint # r1.mint
        /\ r3.mint = r2.programId
        /\ r1.result.ok /\ r2.result.ok /\ r3.result.ok
        /\ r1.result # r2.result /\ r1.result # r3.result

====
